---- MODULE Spec2Model ----
(***************************************************************************)
(* Genguard: a schema-evolving CSV store (dataset_append.py) and a         *)
(* near-duplicate guard over it (dataset_guard.py).                        *)
(*                                                                         *)
(* Text is a sequence of one-character strings, so that strip, split,      *)
(* normalisation, tokenisation and the difflib ratio are computed and not  *)
(* assumed.  A CSV file is a sequence of physical records, each a sequence *)
(* of fields; the csv module's quoting makes the field list of a written   *)
(* record the field list read back, with the two special cases kept: an    *)
(* empty field list is written as an empty line, which csv.reader returns  *)
(* as [] (and DictReader skips), and a lone empty field is written as ""   *)
(* and read back as [''].                                                  *)
(***************************************************************************)
EXTENDS Integers, Sequences, FiniteSets, TLC

VARIABLES
    exists,     \* os.path.exists(csv_path)
    file,       \* the physical records of csv_path, header first
    last,       \* what the last finished invocation of dataset_append did
    seen,       \* field names of all successfully appended records, first-seen order
    verdict,    \* what the guard answered about the store as it stands, if asked
    pc,         \* per writer process: position inside dataset_append.main
    loc,        \* per writer process: the locals of main (row, existing_cols, ...)
    log         \* order of the file operations of the writer processes

vars == <<exists, file, last, seen, verdict, pc, loc, log>>

----------------------------------------------------------------------------
(* Bounds *)

\* most physical records a file may hold before a further append is not explored
MaxLines == 3
\* most key=value arguments of one invocation of dataset_append
MaxPairs == 2

----------------------------------------------------------------------------
(* Text *)

Range(s) == {s[i] : i \in DOMAIN s}

IsPrefix(s, t) == Len(s) <= Len(t) /\ SubSeq(t, 1, Len(s)) = s

\* str.isspace over the characters used
IsSpace(c) == c \in {" ", "\n"}

\* str.isdigit / \d
IsDigit(c) == c \in {"0", "1", "2"}

\* \w : letters, digits, underscore.  Every other character of the model's texts
\* (".", "=", and the whitespace) is neither
IsWord(c) == c \in {"a", "b", "c", "t", "x", "y", "A", "B", "T", "_"} \/ IsDigit(c)

\* str.lower
Lower(c) == CASE c = "A" -> "a" [] c = "B" -> "b" [] c = "T" -> "t" [] OTHER -> c

RECURSIVE LStrip(_)
LStrip(s) == IF s # <<>> /\ IsSpace(Head(s)) THEN LStrip(Tail(s)) ELSE s

RECURSIVE RStrip(_)
RStrip(s) ==
    IF s # <<>> /\ IsSpace(s[Len(s)]) THEN RStrip(SubSeq(s, 1, Len(s) - 1)) ELSE s

\* str.strip()
Strip(s) == RStrip(LStrip(s))

\* str.rstrip("\n")
RECURSIVE RStripNL(_)
RStripNL(s) ==
    IF s # <<>> /\ s[Len(s)] = "\n" THEN RStripNL(SubSeq(s, 1, Len(s) - 1)) ELSE s

\* "=" in raw
HasEq(raw) == \E i \in DOMAIN raw : raw[i] = "="

\* raw.split("=", 1) : the text before and after the first "="
SplitEq(raw) ==
    LET i == CHOOSE j \in DOMAIN raw :
                 raw[j] = "=" /\ \A k \in 1..(j - 1) : raw[k] # "="
    IN  <<SubSeq(raw, 1, i - 1), SubSeq(raw, i + 1, Len(raw))>>

----------------------------------------------------------------------------
(* Ordered dictionaries: a sequence of <<key, value>> with distinct keys *)

\* None, as DictReader's restval
NoneVal == <<"<None>">>

DictKeys(d) == [i \in DOMAIN d |-> d[i][1]]

DictHas(d, k) == \E i \in DOMAIN d : d[i][1] = k

\* d.get(k, default)
DictGet(d, k, default) ==
    IF DictHas(d, k) THEN d[CHOOSE i \in DOMAIN d : d[i][1] = k][2] ELSE default

\* d[k] = v : a known key keeps its position, a new key goes last
DictSet(d, k, v) ==
    IF DictHas(d, k)
    THEN [i \in DOMAIN d |-> IF d[i][1] = k THEN <<k, v>> ELSE d[i]]
    ELSE Append(d, <<k, v>>)

----------------------------------------------------------------------------
(* dataset_append.py *)

\* parse_pairs raises ValueError: a pair without "=", or an empty key
PairsInvalid(pairs) ==
    \E i \in DOMAIN pairs :
        \/ ~HasEq(pairs[i])
        \/ Strip(SplitEq(pairs[i])[1]) = <<>>

RECURSIVE ParseInto(_, _)
ParseInto(pairs, data) ==
    IF pairs = <<>> THEN data
    ELSE LET kv == SplitEq(Head(pairs))
         IN  ParseInto(Tail(pairs), DictSet(data, Strip(kv[1]), RStripNL(kv[2])))

\* parse_pairs on valid pairs: last occurrence of a key wins
ParsePairs(pairs) == ParseInto(pairs, <<>>)

\* --timestamp-col default and the value of iso_timestamp()
TimestampCol == <<"t">>
IsoTimestamp == <<"T">>

\* the row of main after lines 145-152
BuildRow(pairs, addTs) ==
    IF addTs THEN DictSet(ParsePairs(pairs), TimestampCol, IsoTimestamp)
    ELSE ParsePairs(pairs)

\* dict(zip(fieldnames, row)) plus restkey/restval of csv.DictReader.__next__
RECURSIVE ZipInto(_, _, _)
ZipInto(names, fields, d) ==
    IF names = <<>> \/ fields = <<>> THEN d
    ELSE ZipInto(Tail(names), Tail(fields), DictSet(d, Head(names), Head(fields)))

RECURSIVE FillNone(_, _)
FillNone(names, d) ==
    IF names = <<>> THEN d
    ELSE FillNone(Tail(names), DictSet(d, Head(names), NoneVal))

DictRow(names, fields) ==
    [cells |-> IF Len(names) > Len(fields)
               THEN FillNone(SubSeq(names, Len(fields) + 1, Len(names)),
                             ZipInto(names, fields, <<>>))
               ELSE ZipInto(names, fields, <<>>),
     rest  |-> IF Len(names) < Len(fields)
               THEN SubSeq(fields, Len(names) + 1, Len(fields))
               ELSE <<>>]

\* reader.fieldnames or [] : the first physical record, whatever it is
Fieldnames(f) == IF f = <<>> THEN <<>> ELSE Head(f)

NonEmptyLine(l) == l # <<>>

\* list(reader) : the records after the first, the empty ones skipped
DictRows(f) ==
    IF f = <<>> THEN <<>>
    ELSE LET body == SelectSeq(Tail(f), NonEmptyLine)
         IN  [i \in DOMAIN body |-> DictRow(Fieldnames(f), body[i])]

\* read_existing_csv of a non-empty file
ReadExistingCsv(f) == [columns |-> Fieldnames(f), rows |-> DictRows(f)]

\* RowOut without the default: only the columns the row has are emitted
RowOut_PresentOnly(columns, cells) ==
    LET present == SelectSeq(columns, LAMBDA c : DictHas(cells, c))
    IN  [i \in DOMAIN present |->
            LET v == DictGet(cells, present[i], <<>>)
            IN  IF v = NoneVal THEN <<>> ELSE v]

\* {col: row.get(col, "") for col in columns}, as csv.writer emits it (None as "")
RowOut(columns, cells) ==
    [i \in DOMAIN columns |->
        LET v == DictGet(cells, columns[i], <<>>)
        IN  IF v = NoneVal THEN <<>> ELSE v]

\* write_full_csv: the file is truncated, then header and rows are written
WriteFullCsv(columns, rows) ==
    <<columns>> \o [i \in DOMAIN rows |-> RowOut(columns, rows[i].cells)]

\* append_row_same_schema: one record at the end of what the file holds
AppendRowSameSchema(f, columns, cells) == Append(f, RowOut(columns, cells))

\* new_cols = [k for k in row.keys() if k not in existing_cols]
NewCols(row, existingCols) ==
    LET IsNew(k) == k \notin Range(existingCols)
    IN  SelectSeq(DictKeys(row), IsNew)

\* os.path.exists(csv_path) and os.path.getsize(csv_path) > 0
ExistsNonEmpty == exists /\ Len(file) > 0

----------------------------------------------------------------------------
(* One whole invocation of dataset_append.main on csv_path (lines 145-209,  *)
(* every write succeeding).  csv_path is the path resolve_stamped_path      *)
(* returned; the store is the file at that path.                            *)

NoOp == [op |-> "none", rc |-> 0, row |-> <<>>, newCols |-> <<>>, truncated |-> FALSE]

\* ExpandedFile with all_cols = new_cols + existing_cols
ExpandedFile_NewColsFirst(f, row) ==
    LET ex      == ReadExistingCsv(f)
        allCols == NewCols(row, ex.columns) \o ex.columns
    IN  AppendRowSameSchema(WriteFullCsv(allCols, ex.rows), allCols, row)

\* lines 159-176: the file is rewritten with the expanded schema, then the row appended
ExpandedFile(f, row) ==
    LET ex      == ReadExistingCsv(f)
        allCols == ex.columns \o NewCols(row, ex.columns)
    IN  AppendRowSameSchema(WriteFullCsv(allCols, ex.rows), allCols, row)

\* lines 183-185: the row is appended under the existing columns
SameSchemaFile(f, row) == AppendRowSameSchema(f, ReadExistingCsv(f).columns, row)

\* lines 194-199: header of the row's keys, then the row
CreatedFile(row) ==
    AppendRowSameSchema(WriteFullCsv(DictKeys(row), <<>>), DictKeys(row), row)

\* the ghost: first-seen field names after one more record
SeenAfter(s, row) == s \o NewCols(row, s)

AppendMain(pairs, addTs) ==
    /\ IF PairsInvalid(pairs)
       THEN /\ last' = [NoOp EXCEPT !.op = "invalid", !.rc = 2]
            /\ UNCHANGED <<exists, file, seen>>
       ELSE LET row == BuildRow(pairs, addTs)
            IN  /\ seen' = SeenAfter(seen, row)
                /\ exists' = TRUE
                /\ IF ExistsNonEmpty
                   THEN LET nc == NewCols(row, ReadExistingCsv(file).columns)
                        IN  IF nc # <<>>
                            THEN /\ file' = ExpandedFile(file, row)
                                 /\ last' = [op |-> "expand", rc |-> 0, row |-> row,
                                             newCols |-> nc, truncated |-> TRUE]
                            ELSE /\ file' = SameSchemaFile(file, row)
                                 /\ last' = [op |-> "append", rc |-> 0, row |-> row,
                                             newCols |-> nc, truncated |-> FALSE]
                   ELSE /\ file' = CreatedFile(row)
                        /\ last' = [op |-> "create", rc |-> 0, row |-> row,
                                    newCols |-> DictKeys(row), truncated |-> TRUE]
    /\ UNCHANGED <<pc, loc, log>>

\* raw command-line arguments of the store's callers
StoreArgs ==
    { <<"a", "=", "x">>, <<" ", "a", "=", "y">>, <<"b", "=", "x">>, <<"b", "=", "\n">>,
      <<"b">>, <<" ", "=", "x">> }

RECURSIVE SeqsUpTo(_, _)
SeqsUpTo(S, n) ==
    IF n = 0 THEN {<<>>}
    ELSE LET shorter == SeqsUpTo(S, n - 1)
         IN  shorter \cup {Append(s, x) : s \in shorter, x \in S}

StoreAppend ==
    /\ Len(file) < MaxLines
    /\ \E pairs \in SeqsUpTo(StoreArgs, MaxPairs), addTs \in BOOLEAN :
           AppendMain(pairs, addTs)
    /\ UNCHANGED verdict

----------------------------------------------------------------------------
(* dataset_guard.py *)

\* parse_pairs of the guard: a pair without "=" is skipped, key and value are stripped
RECURSIVE GuardParseInto(_, _)
GuardParseInto(pairs, data) ==
    IF pairs = <<>> THEN data
    ELSE IF HasEq(Head(pairs))
         THEN LET kv == SplitEq(Head(pairs))
              IN  GuardParseInto(Tail(pairs), DictSet(data, Strip(kv[1]), Strip(kv[2])))
         ELSE GuardParseInto(Tail(pairs), data)

GuardParsePairs(pairs) == GuardParseInto(pairs, <<>>)

LowerAll(s) == [i \in DOMAIN s |-> Lower(s[i])]

RECURSIVE DropDigits(_)
DropDigits(s) == IF s # <<>> /\ IsDigit(Head(s)) THEN DropDigits(Tail(s)) ELSE s

\* re.sub(r"\d+", " 0 ", s)
RECURSIVE MaskNumbers(_)
MaskNumbers(s) ==
    IF s = <<>> THEN <<>>
    ELSE IF IsDigit(Head(s)) THEN <<" ", "0", " ">> \o MaskNumbers(DropDigits(s))
         ELSE <<Head(s)>> \o MaskNumbers(Tail(s))

\* re.sub(r"[^\w\s]", " ", s)
RemovePunctuation(s) ==
    [i \in DOMAIN s |-> IF IsWord(s[i]) \/ IsSpace(s[i]) THEN s[i] ELSE " "]

\* re.sub(r"\s+", " ", s)
RECURSIVE CollapseWhitespace(_)
CollapseWhitespace(s) ==
    IF s = <<>> THEN <<>>
    ELSE IF IsSpace(Head(s)) THEN <<" ">> \o CollapseWhitespace(LStrip(s))
         ELSE <<Head(s)>> \o CollapseWhitespace(Tail(s))

\* normalize_text.  NFKC is the identity on the ASCII characters used, and the URL
\* and e-mail patterns need "://" and "@", which no text of the model holds.
NormalizeText(text) ==
    Strip(CollapseWhitespace(RemovePunctuation(MaskNumbers(LowerAll(text)))))

RECURSIVE WordRun(_)
WordRun(s) == IF s # <<>> /\ IsWord(Head(s)) THEN <<Head(s)>> \o WordRun(Tail(s)) ELSE <<>>

\* tokenize: re.findall(r"\w+", text)
RECURSIVE Tokenize(_)
Tokenize(s) ==
    IF s = <<>> THEN <<>>
    ELSE IF IsWord(Head(s))
         THEN <<WordRun(s)>> \o Tokenize(SubSeq(s, Len(WordRun(s)) + 1, Len(s)))
         ELSE Tokenize(Tail(s))

\* jaccard_similarity, as the fraction <<numerator, denominator>>
JaccardSimilarity(tokensA, tokensB) ==
    LET setA == Range(tokensA)
        setB == Range(tokensB)
    IN  IF setA = {} /\ setB = {} THEN <<1, 1>>
        ELSE IF setA = {} \/ setB = {} THEN <<0, 1>>
        ELSE <<Cardinality(setA \cap setB), Cardinality(setA \cup setB)>>

\* length of the common run of a from i and b from j, inside a[..ahi) and b[..bhi)
RECURSIVE RunLen(_, _, _, _, _, _)
RunLen(a, b, i, j, ahi, bhi) ==
    IF i < ahi /\ j < bhi /\ a[i] = b[j] THEN 1 + RunLen(a, b, i + 1, j + 1, ahi, bhi)
    ELSE 0

\* SequenceMatcher.find_longest_match(alo, ahi, blo, bhi): the longest block,
\* of those the one starting earliest in a, of those the one earliest in b.
\* Indices are 1-based and the upper ends exclusive.  No element is junk:
\* isjunk is None and autojunk needs 200 elements.
FindLongestMatch(a, b, alo, ahi, blo, bhi) ==
    LET cand == {<<i, j>> \in (alo..(ahi - 1)) \X (blo..(bhi - 1)) : a[i] = b[j]}
        size(c) == RunLen(a, b, c[1], c[2], ahi, bhi)
    IN  IF cand = {} THEN <<alo, blo, 0>>
        ELSE LET best == CHOOSE c \in cand :
                     \A d \in cand :
                         \/ size(c) > size(d)
                         \/ size(c) = size(d) /\ c[1] < d[1]
                         \/ size(c) = size(d) /\ c[1] = d[1] /\ c[2] <= d[2]
             IN  <<best[1], best[2], size(best)>>

\* sum of the sizes of get_matching_blocks()
RECURSIVE MatchedChars(_, _, _, _, _, _)
MatchedChars(a, b, alo, ahi, blo, bhi) ==
    LET m == FindLongestMatch(a, b, alo, ahi, blo, bhi)
        i == m[1]
        j == m[2]
        k == m[3]
    IN  IF k = 0 THEN 0
        ELSE k + (IF alo < i /\ blo < j THEN MatchedChars(a, b, alo, i, blo, j) ELSE 0)
               + (IF i + k < ahi /\ j + k < bhi
                  THEN MatchedChars(a, b, i + k, ahi, j + k, bhi) ELSE 0)

\* DifflibSimilarity as matches / length, the factor 2 of ratio() left out
DifflibSimilarity_Halved(a, b) ==
    IF Len(a) + Len(b) = 0 THEN <<1, 1>>
    ELSE <<MatchedChars(a, b, 1, Len(a) + 1, 1, Len(b) + 1), Len(a) + Len(b)>>

\* difflib_similarity: SequenceMatcher(None, a, b).ratio(), as a fraction
DifflibSimilarity(a, b) ==
    IF Len(a) + Len(b) = 0 THEN <<1, 1>>
    ELSE <<2 * MatchedChars(a, b, 1, Len(a) + 1, 1, Len(b) + 1), Len(a) + Len(b)>>

\* Exceeds with >= for >
Exceeds_OrEqual(sim, hundredths) == sim[1] * 100 >= hundredths * sim[2]

\* sim > threshold, the threshold in hundredths.  Python divides two small integers
\* and compares doubles; correctly rounded division keeps the order of the exact
\* values, and equal exact values give equal doubles.
Exceeds(sim, hundredths) == sim[1] * 100 > hundredths * sim[2]

\* lines 103-107 and 115-119
Normalized(cfg, text) == IF cfg.noNormalize THEN text ELSE NormalizeText(text)

\* existing_val = row.get(check_col, "") or ""
ExistingVal(row, col) ==
    LET v == DictGet(row.cells, col, <<>>) IN IF v = NoneVal THEN <<>> ELSE v

SimChar(cfg, target, existing) ==
    DifflibSimilarity(Normalized(cfg, target), Normalized(cfg, existing))

SimTok(cfg, target, existing) ==
    JaccardSimilarity(Tokenize(Normalized(cfg, target)),
                      Tokenize(Normalized(cfg, existing)))

\* line 124: the fusion of the two scores
Similar(cfg, target, existing) ==
    \/ Exceeds(SimChar(cfg, target, existing), cfg.threshold)
    \/ Exceeds(SimTok(cfg, target, existing), cfg.tokenThreshold)

\* BelowMinLength on the length of the text as given
BelowMinLength_RawLength(cfg, target) ==
    cfg.minLength # 0 /\ Len(target) < cfg.minLength

\* line 109
BelowMinLength(cfg, target) ==
    cfg.minLength # 0 /\ Len(Normalized(cfg, target)) < cfg.minLength

\* HasColumn asking only whether there is a header
HasColumn_AnyHeader(col, names) == names # <<>>

\* line 98: args.check_col in (reader.fieldnames or [])
HasColumn(col, names) == col \in Range(names)

\* main of the guard: the exit status and which return produced it
GuardMain(pairs, cfg) ==
    LET newData == GuardParsePairs(pairs)
        target  == DictGet(newData, cfg.checkCol, <<>>)
        rows    == DictRows(file)
        hits    == {i \in DOMAIN rows :
                        Similar(cfg, target, ExistingVal(rows[i], cfg.checkCol))}
        base    == [out |-> "none", why |-> "none", pairs |-> pairs, cfg |-> cfg,
                    row |-> 0, simChar |-> <<0, 1>>, simTok |-> <<0, 1>>]
    IN  IF ~exists
        THEN [base EXCEPT !.out = "admit", !.why = "no file"]
        ELSE IF target = <<>>
        THEN [base EXCEPT !.out = "missing", !.why = "missing"]
        ELSE IF ~HasColumn(cfg.checkCol, Fieldnames(file))
        THEN [base EXCEPT !.out = "admit", !.why = "no column"]
        ELSE IF BelowMinLength(cfg, target)
        THEN [base EXCEPT !.out = "admit", !.why = "min length"]
        ELSE IF hits # {}
        THEN LET i == CHOOSE h \in hits : \A g \in hits : h <= g
                 e == ExistingVal(rows[i], cfg.checkCol)
             IN  [base EXCEPT !.out = "reject", !.why = "similar", !.row = i + 1,
                              !.simChar = SimChar(cfg, target, e),
                              !.simTok = SimTok(cfg, target, e)]
        ELSE [base EXCEPT !.out = "admit", !.why = "unique"]

NoVerdict == [out |-> "none"]

\* the invocations of dataset_append that may run at the same time
Writers == {1, 2}

\* the locals of main before it has run.  allCols is the columns the row is appended
\* under (all_cols, existing_cols or columns); rc = -1 while no exit status is set;
\* old is the file as read_existing_csv found it, at is where a stopped process was
NoLocals ==
    [row |-> <<>>, cols |-> <<>>, rows |-> <<>>, newCols |-> <<>>, allCols |-> <<>>,
     buf |-> <<>>, old |-> <<>>, at |-> "none", rc |-> -1]

Init ==
    /\ exists = FALSE
    /\ file = <<>>
    /\ last = NoOp
    /\ seen = <<>>
    /\ verdict = NoVerdict
    /\ pc = [w \in Writers |-> "idle"]
    /\ loc = [w \in Writers |-> NoLocals]
    /\ log = <<>>

Next == StoreAppend

Spec == Init /\ [][Next]_vars

----------------------------------------------------------------------------
(* The guard over a store the append tool has written *)

\* most physical records of the store the guard scans
MaxGuardLines == 3

\* argument lists handed to both tools
GuardArgLists ==
    { << <<"x", "=", "a", "b">> >>,
      << <<"x", "=", "A", "b", ".">> >>,
      << <<"x", "=", " ", "a", "2">> >>,
      << <<"x", "=", "a", " ", "b">> >>,
      << <<"x", "=", ".">> >>,
      << <<"x", "=">> >>,
      << <<"y", "=", "a", "b">> >>,
      << <<"y", "=", "b">>, <<"x", "=", "b", "a">> >>,
      << <<"x", "=", "b", "a">>, <<"x">>, <<"x", "=", "a", "b">> >> }

\* --threshold and --token-threshold in hundredths, --min-length, --no-normalize
GuardConfigs ==
    [checkCol : {<<"x">>, <<"y">>}, threshold : {50, 100}, tokenThreshold : {50, 100},
     noNormalize : BOOLEAN, minLength : {0, 3}]

\* a row is committed; the verdict of the check before it is spent
GuardAppend ==
    /\ Len(file) < MaxGuardLines
    /\ \E pairs \in GuardArgLists : AppendMain(pairs, FALSE)
    /\ verdict' = NoVerdict

\* one invocation of dataset_guard.main against the store as it stands
Evaluate ==
    /\ verdict = NoVerdict
    /\ \E pairs \in GuardArgLists, cfg \in GuardConfigs :
           verdict' = GuardMain(pairs, cfg)
    /\ UNCHANGED <<exists, file, last, seen, pc, loc, log>>

NextGuard == GuardAppend \/ Evaluate

SpecGuard == Init /\ [][NextGuard]_vars

----------------------------------------------------------------------------
(* dataset_append.main step by step, for invocations that share csv_path.    *)
(* A store of the model is far smaller than io.DEFAULT_BUFFER_SIZE, so what  *)
(* write_full_csv wrote reaches the file in one write when its file object   *)
(* is closed, at offset 0 of the file that open(path, "w") truncated; the    *)
(* append of the row is one O_APPEND write when its file object is closed.   *)

\* argument lists of the concurrent invocations
ConcArgLists ==
    { << <<"a", "=", "x">> >>,
      << <<"a", "=", "y">> >>,
      << <<"b", "=", "x">> >>,
      << <<"a", "=", "y">>, <<"b", "=", "y">> >>,
      << <<"b">> >> }

\* the store after one whole successful invocation
AfterAppend(f, row) ==
    IF Len(f) = 0 THEN CreatedFile(row)
    ELSE IF NewCols(row, ReadExistingCsv(f).columns) # <<>> THEN ExpandedFile(f, row)
    ELSE SameSchemaFile(f, row)

\* stores that earlier invocations, one after the other, have left
ConcStores ==
    LET rows == {BuildRow(l, FALSE) : l \in {m \in ConcArgLists : ~PairsInvalid(m)}}
        one  == {CreatedFile(r) : r \in rows}
    IN  one \cup {AfterAppend(f, r) : f \in one, r \in rows}

InitConc ==
    /\ \/ exists = FALSE /\ file = <<>>
       \/ exists = TRUE /\ file \in ConcStores
    /\ last = NoOp
    /\ seen = <<>>
    /\ verdict = NoVerdict
    /\ pc = [w \in Writers |-> "idle"]
    /\ loc = [w \in Writers |-> NoLocals]
    /\ log = <<>>

\* lines 145-159: the arguments are parsed and the path is looked at
Start(w) ==
    /\ pc[w] = "idle"
    /\ \E pairs \in ConcArgLists :
           IF PairsInvalid(pairs)
           THEN /\ pc' = [pc EXCEPT ![w] = "done"]
                /\ loc' = [loc EXCEPT ![w].rc = 2]
           ELSE /\ pc' = [pc EXCEPT ![w] = IF ExistsNonEmpty THEN "read" ELSE "create"]
                /\ loc' = [loc EXCEPT ![w].row = BuildRow(pairs, FALSE)]
    /\ UNCHANGED <<exists, file, last, seen, verdict, log>>

\* lines 161-168: the file is read and the new columns are computed
Read(w) ==
    /\ pc[w] = "read"
    /\ LET ex == ReadExistingCsv(file)
           nc == NewCols(loc[w].row, ex.columns)
       IN  /\ loc' = [loc EXCEPT ![w].cols = ex.columns, ![w].rows = ex.rows,
                                 ![w].newCols = nc, ![w].allCols = ex.columns \o nc,
                                 ![w].old = file]
           /\ pc' = [pc EXCEPT ![w] = IF nc # <<>> THEN "rewrite" ELSE "append"]
    /\ log' = Append(log, <<w, "read">>)
    /\ UNCHANGED <<exists, file, last, seen, verdict>>

\* TruncatedFile for a file opened without truncation ("r+")
TruncatedFile_Kept(f) == f

\* what open(path, "w") leaves of the file
TruncatedFile(f) == <<>>

\* line 97 inside write_full_csv, called at line 172 or 198
Truncate(w) ==
    /\ pc[w] \in {"rewrite", "create"}
    /\ file' = TruncatedFile(file)
    /\ exists' = TRUE
    /\ loc' = [loc EXCEPT
                  ![w].allCols = IF pc[w] = "create" THEN DictKeys(loc[w].row) ELSE @,
                  ![w].buf = IF pc[w] = "create"
                             THEN WriteFullCsv(DictKeys(loc[w].row), <<>>)
                             ELSE WriteFullCsv(loc[w].allCols, loc[w].rows)]
    /\ pc' = [pc EXCEPT ![w] = "flush"]
    /\ log' = Append(log, <<w, "truncate">>)
    /\ UNCHANGED <<last, seen, verdict>>

\* records written at offset 0 over what the file holds by then
WrittenAtStart(f, buf) == buf \o SubSeq(f, Len(buf) + 1, Len(f))

\* lines 98-103: header and rows reach the file as write_full_csv closes it
Flush(w) ==
    /\ pc[w] = "flush"
    /\ file' = WrittenAtStart(file, loc[w].buf)
    /\ pc' = [pc EXCEPT ![w] = "append"]
    /\ loc' = [loc EXCEPT ![w].buf = <<>>]
    /\ log' = Append(log, <<w, "flush">>)
    /\ UNCHANGED <<exists, last, seen, verdict>>

\* append_row_same_schema at line 173, 185 or 199, and return 0
AppendRow(w) ==
    /\ pc[w] = "append"
    /\ file' = AppendRowSameSchema(file, loc[w].allCols, loc[w].row)
    /\ pc' = [pc EXCEPT ![w] = "done"]
    /\ loc' = [loc EXCEPT ![w].rc = 0]
    /\ log' = Append(log, <<w, "append">>)
    /\ UNCHANGED <<exists, last, seen, verdict>>

\* the process stops where it is: killed, or the machine loses power
Crash(w) ==
    /\ pc[w] \in {"read", "rewrite", "create", "flush", "append"}
    /\ pc' = [pc EXCEPT ![w] = "crashed"]
    /\ loc' = [loc EXCEPT ![w].at = pc[w]]
    /\ UNCHANGED <<exists, file, last, seen, verdict, log>>

NextConc ==
    \E w \in Writers :
        \/ Start(w)
        \/ Read(w)
        \/ Truncate(w)
        \/ Flush(w)
        \/ AppendRow(w)
        \/ Crash(w)

SpecConc == InitConc /\ [][NextConc]_vars

----------------------------------------------------------------------------
(* Properties of the guard, under SpecGuard *)

Asked == verdict.out # "none"

\* the proposed value of the checked field as main holds it (target_content)
Target == DictGet(GuardParsePairs(verdict.pairs), verdict.cfg.checkCol, <<>>)

\* the text given on the command line for the checked field, before any stripping
RECURSIVE RawValueOf(_, _, _)
RawValueOf(pairs, col, default) ==
    IF pairs = <<>> THEN default
    ELSE IF HasEq(Head(pairs)) /\ Strip(SplitEq(Head(pairs))[1]) = col
         THEN RawValueOf(Tail(pairs), col, SplitEq(Head(pairs))[2])
         ELSE RawValueOf(Tail(pairs), col, default)

RawProposed == RawValueOf(verdict.pairs, verdict.cfg.checkCol, <<>>)

ColumnPresent == exists /\ verdict.cfg.checkCol \in Range(Fieldnames(file))

StoredValues ==
    [i \in DOMAIN DictRows(file) |-> ExistingVal(DictRows(file)[i], verdict.cfg.checkCol)]

NormNew == IF verdict.cfg.noNormalize THEN Target ELSE NormalizeText(Target)
NormOld(i) ==
    IF verdict.cfg.noNormalize THEN StoredValues[i] ELSE NormalizeText(StoredValues[i])

CharSimTo(i) == DifflibSimilarity(NormNew, NormOld(i))
TokSimTo(i) == JaccardSimilarity(Tokenize(NormNew), Tokenize(NormOld(i)))

\* strictly above the threshold, stated on the exact fractions
OverChar(i) == CharSimTo(i)[1] * 100 > verdict.cfg.threshold * CharSimTo(i)[2]
OverTok(i) == TokSimTo(i)[1] * 100 > verdict.cfg.tokenThreshold * TokSimTo(i)[2]

ShortcutApplies == verdict.cfg.minLength # 0 /\ Len(NormNew) < verdict.cfg.minLength

\* C6: with a non-empty proposed value, the checked column in the store and no
\* min-length shortcut, the guard rejects exactly when some stored row has
\* charSim > charThreshold or tokenSim > tokenThreshold, both comparisons strict;
\* the row it reports is the first such row.
C6_RejectIffSomeRowOver ==
    (Asked /\ Target # <<>> /\ ColumnPresent /\ ~ShortcutApplies) =>
        /\ (verdict.out = "reject") <=>
               (\E i \in DOMAIN StoredValues : OverChar(i) \/ OverTok(i))
        /\ verdict.out # "reject" => verdict.out = "admit"
        /\ verdict.out = "reject" =>
               /\ verdict.row - 1 \in DOMAIN StoredValues
               /\ OverChar(verdict.row - 1) \/ OverTok(verdict.row - 1)
               /\ \A j \in 1..(verdict.row - 2) : ~(OverChar(j) \/ OverTok(j))

\* a row scoring exactly the character threshold, and nothing above: admitted
C6_Witness ==
    /\ Asked /\ Target # <<>> /\ ColumnPresent /\ ~ShortcutApplies
    /\ verdict.out = "admit"
    /\ \E i \in DOMAIN StoredValues :
           /\ CharSimTo(i)[1] * 100 = verdict.cfg.threshold * CharSimTo(i)[2]
           /\ CharSimTo(i)[1] > 0

\* C7 as stated: the file exists, the checked column is not in its header, the
\* checked field is among the proposed pairs: the guard admits whatever the value.
C7_AdmitsWhateverTheValue ==
    (Asked /\ exists /\ ~ColumnPresent
        /\ DictHas(GuardParsePairs(verdict.pairs), verdict.cfg.checkCol)) =>
        verdict.out = "admit"

\* C7 amended: the file exists and the checked column is not in its header: the
\* guard admits every proposed value that is non-empty once stripped, and answers
\* "missing" (exit status 1) for an empty or absent one, before it looks at the header.
C7_AdmitsNonEmptyValue ==
    (Asked /\ exists /\ ~ColumnPresent) =>
        /\ Target # <<>> => verdict.out = "admit"
        /\ Target = <<>> => verdict.out = "missing"

\* a store of two rows without the checked column, a non-empty proposal: admitted
C7_Witness ==
    /\ Asked /\ exists /\ ~ColumnPresent
    /\ Len(DictRows(file)) >= 2
    /\ Target # <<>>
    /\ verdict.out = "admit"

\* the stored rows whose checked field is exactly the text proposed
SameTextRows ==
    {i \in DOMAIN StoredValues :
        /\ DictHas(DictRows(file)[i].cells, verdict.cfg.checkCol)
        /\ StoredValues[i] = RawProposed}

\* len of the text as the guard would normalise it
NormLen(text) ==
    IF verdict.cfg.noNormalize THEN Len(text) ELSE Len(NormalizeText(text))

\* C8 as stated: thresholds anywhere in [0,1]; proposing the exact text of a stored
\* row's checked field, non-empty and of normalised length at least minLength,
\* is rejected with charSim = 1.0.
C8_ReflexiveAnyThreshold ==
    (Asked /\ verdict.cfg.threshold \in 0..100 /\ verdict.cfg.tokenThreshold \in 0..100
        /\ RawProposed # <<>> /\ NormLen(RawProposed) >= verdict.cfg.minLength
        /\ SameTextRows # {}) =>
        /\ verdict.out = "reject"
        /\ verdict.simChar[1] = verdict.simChar[2]

\* C8 amended: when at least one of the two thresholds is below 1.0, proposing the
\* exact text of a stored row's checked field, non-empty once stripped, without
\* surrounding whitespace unless normalisation is on, and of normalised length at
\* least minLength, is rejected, and the proposal's charSim against that row is 1.0
\* (the scores reported are those of the first row over a threshold).
C8_ReflexiveBelowOne ==
    (Asked /\ (verdict.cfg.threshold < 100 \/ verdict.cfg.tokenThreshold < 100)
        /\ Strip(RawProposed) # <<>>
        /\ (verdict.cfg.noNormalize => Strip(RawProposed) = RawProposed)
        /\ NormLen(RawProposed) >= verdict.cfg.minLength
        /\ SameTextRows # {}) =>
        /\ verdict.out = "reject"
        /\ \A i \in SameTextRows : CharSimTo(i)[1] = CharSimTo(i)[2]
        /\ \A i \in SameTextRows : verdict.row - 1 <= i

\* rejected on the token score alone: the character threshold is 1.0
C8_Witness ==
    /\ Asked /\ SameTextRows # {}
    /\ verdict.cfg.threshold = 100 /\ verdict.cfg.tokenThreshold < 100
    /\ NormLen(RawProposed) >= verdict.cfg.minLength
    /\ Strip(RawProposed) # <<>>
    /\ verdict.out = "reject"
    /\ verdict.simChar[1] = verdict.simChar[2]

\* C9: the checked column is in the store, the proposed value is non-empty and its
\* normalised length is below minLength: the guard admits, whatever the scores.
C9_BelowMinLengthAdmits ==
    (Asked /\ ColumnPresent /\ Target # <<>> /\ Len(NormNew) < verdict.cfg.minLength) =>
        verdict.out = "admit"

\* admitted below the floor although a stored row is the very same text
C9_Witness ==
    /\ Asked /\ ColumnPresent /\ Target # <<>>
    /\ Len(NormNew) < verdict.cfg.minLength
    /\ \E i \in DOMAIN StoredValues : StoredValues[i] = Target /\ OverChar(i)
    /\ verdict.out = "admit"

----------------------------------------------------------------------------
(* Properties of the store, under Spec *)

\* what readAll returns: the Schema and the persisted rows
Schema(f) == ReadExistingCsv(f).columns
Rows(f) == ReadExistingCsv(f).rows

\* a step of a successful append: every such step adds a physical record
Appended == file' # file

\* C1: the Schema is the first-seen concatenation of the field names of all records
\* appended so far; each append leaves it unchanged or extends it at the end with
\* the record's new fields in the record's key order; nothing known is removed,
\* renamed or reordered.
C1_SchemaFirstSeen ==
    [][Appended =>
        /\ Schema(file') = seen'
        /\ IsPrefix(Schema(file), Schema(file'))
        /\ LET known(k) == k \in Range(Schema(file))
               fresh(k) == ~known(k)
           IN  Schema(file') = Schema(file) \o SelectSeq(DictKeys(last'.row), fresh)]_vars

\* an append that brought two new fields at once to a store that had one
C1_Witness ==
    /\ last.op = "expand"
    /\ Len(last.newCols) = 2
    /\ Len(Schema(file)) = 3
    /\ Schema(file) = seen

\* C2: every persisted row has exactly one value for every field of the Schema,
\* and after an append that introduced new fields every row persisted before it
\* has the empty string for each of them.
C2_NoMissingCells ==
    ExistsNonEmpty =>
        /\ \A i \in DOMAIN Rows(file) :
               /\ DictKeys(Rows(file)[i].cells) = Schema(file)
               /\ Rows(file)[i].rest = <<>>
               /\ \A j \in DOMAIN Schema(file) : Rows(file)[i].cells[j][2] # NoneVal
        /\ \A i \in 2..Len(file) : Len(file[i]) = Len(Schema(file))
        /\ last.op = "expand" =>
               \A i \in 1..(Len(Rows(file)) - 1) : \A j \in DOMAIN last.newCols :
                   DictGet(Rows(file)[i].cells, last.newCols[j], NoneVal) = <<>>

\* a row written under one field, then an append that brought another
C2_Witness ==
    /\ last.op = "expand"
    /\ Len(Rows(file)) >= 2
    /\ \E j \in DOMAIN Schema(file) :
           /\ Schema(file)[j] \notin Range(last.newCols)
           /\ Rows(file)[1].cells[j][2] # <<>>

\* C4: a successful append to an existing non-empty store adds exactly one row, last,
\* and leaves the rows persisted before in place, in order, with their values for
\* the fields known before; without new fields the file is not rewritten.
C4_OneRowAddedRestKept ==
    [][(ExistsNonEmpty /\ Appended) =>
        /\ Len(Rows(file')) = Len(Rows(file)) + 1
        /\ \A j \in DOMAIN last'.row :
               DictGet(Rows(file')[Len(Rows(file'))].cells, last'.row[j][1], NoneVal)
                   = last'.row[j][2]
        /\ \A i \in DOMAIN Rows(file) : \A j \in DOMAIN Schema(file) :
               DictGet(Rows(file')[i].cells, Schema(file)[j], NoneVal)
                   = Rows(file)[i].cells[j][2]
        /\ last'.newCols = <<>> => ~last'.truncated /\ IsPrefix(file, file')]_vars

\* C5: a record appended to an empty or missing store is read back as the Schema of
\* its keys in order and exactly one row, equal to it.
C5_FirstRecordReadBack ==
    [][(~ExistsNonEmpty /\ Appended) =>
        /\ Schema(file') = DictKeys(last'.row)
        /\ Len(Rows(file')) = 1
        /\ Rows(file')[1] = [cells |-> last'.row, rest |-> <<>>]]_vars

----------------------------------------------------------------------------
(* Properties of invocations that stop or overlap, under SpecConc *)

\* position of the file operation op of writer w in the log, 0 if it has not happened
At(w, op) ==
    IF \E i \in DOMAIN log : log[i] = <<w, op>>
    THEN CHOOSE i \in DOMAIN log : log[i] = <<w, op>>
    ELSE 0

\* no other invocation has touched the file since w read it
Undisturbed(w) ==
    \A i \in DOMAIN log : i > At(w, "read") => log[i][1] = w

\* C3: an invocation that stops anywhere inside the schema-expansion rewrite leaves
\* on disk either the complete old store or the complete new store.
C3_RewriteAtomicUnderCrash ==
    \A w \in Writers :
        (/\ pc[w] = "crashed"
         /\ loc[w].at \in {"rewrite", "flush", "append"}
         /\ loc[w].newCols # <<>>
         /\ Undisturbed(w)) =>
            \/ file = loc[w].old
            \/ file = ExpandedFile(loc[w].old, loc[w].row)

\* w rewrote the file from what it had read before v's append completed
LostUpdate(w, v) ==
    /\ w # v
    /\ pc[w] = "done" /\ loc[w].rc = 0 /\ loc[w].newCols # <<>>
    /\ pc[v] = "done" /\ loc[v].rc = 0
    /\ At(w, "read") > 0
    /\ At(w, "read") < At(v, "append")
    /\ At(v, "append") < At(w, "truncate")

\* C10: when a schema-expansion rewrite has read the existing rows before another
\* invocation's append completes and truncates the file after it, the final store
\* is the rows the rewrite had read plus its own row: the other row, whose append
\* returned 0, is not in it.
C10_RewriteLosesConcurrentAppend ==
    \A w \in Writers, v \in Writers :
        LostUpdate(w, v) =>
            /\ Len(file) = Len(loc[w].rows) + 2
            /\ Len(Rows(file)) = Len(loc[w].rows) + 1
            /\ \A i \in DOMAIN loc[w].rows : \A j \in DOMAIN loc[w].cols :
                   Rows(file)[i].cells[j] = loc[w].rows[i].cells[j]
            /\ \A j \in DOMAIN loc[w].row :
                   DictGet(Rows(file)[Len(Rows(file))].cells, loc[w].row[j][1], NoneVal)
                       = loc[w].row[j][2]

\* such an interleaving, with a value of the lost row found nowhere in the file
C10_Witness ==
    \E w \in Writers, v \in Writers :
        /\ LostUpdate(w, v)
        /\ Len(loc[w].rows) >= 1
        /\ loc[v].newCols = <<>>
        /\ \E k \in DOMAIN loc[v].row :
               /\ loc[v].row[k][2] # <<>>
               /\ \A i \in DOMAIN file : \A j \in DOMAIN file[i] :
                      file[i][j] # loc[v].row[k][2]

====
